---- MODULE Spec2Model ----
(***************************************************************************)
(* State-machine model of the zbot iMessage bot.                           *)
(*                                                                         *)
(* The poll loop of iMessageBot.run (src/zbot/bot/imessage_bot.py) is the  *)
(* specification Spec.  One action per blocking step of the loop: the      *)
(* start-up (set_system_message + initialize), the fetch-to-decision part  *)
(* of a cycle, the completion call, the write of the cooldown timer, the   *)
(* send, the sleep, and the operator's stop request.                       *)
(*                                                                         *)
(* Texts are sequences of one-character strings; "ROBOT" stands for the    *)
(* single code point U+1F916 of BOT_OUT_PREFIX.  Times are whole seconds   *)
(* of time.time(), assumed non-decreasing.                                 *)
(***************************************************************************)
EXTENDS Integers, Sequences, FiniteSets, TLC

VARIABLES
    pc,               \* position of run(): init, fetch, chat, stamp, send, sleep, done, fatal
    now,              \* the value time.time() would return
    last_seen_id,     \* self.last_seen_id   (Conversation Cursor; None when unset)
    last_debug_id,    \* self.last_debug_id  (Debug Cursor); after line 139 it equals
                      \* the local `msg_id`, which the model reads through it
    last_reply_time,  \* self.last_reply_time (Cooldown Timer)
    text,             \* local `text` of run(): the decoded text of the newest row
    reply,            \* local `reply` of run(): what ai_client.chat returned
    start_id,         \* history: msg_id of the newest message that existed at start-up
    evaluated,        \* history: msg_ids passed to should_respond, in call order
    chat_calls,       \* history: msg_ids for which ai_client.chat was called
    sends,            \* history: send attempts [id, stamp, ok]
    sent_text,        \* history: the text of the last call of the send collaborator
    declined_cooldown,\* history: triggers declined only because of the cooldown
    last_cycle,       \* history: the path the last cycle took
    exit_cause,       \* history: why run() ended
    fn_pc,            \* the function or entry point under study, and its position
    fn_arg,           \* its arguments and the answers of its collaborators
    fn_res,           \* what it returned or raised
    history,          \* OpenAIClient.history: entries [role, content]
    attempt,          \* local `attempt` of OpenAIClient.chat
    backoff,          \* local `backoff` of OpenAIClient.chat, in hundredths of a second
    sleeps,           \* history: the backoff sleeps of the current chat call (before jitter)
    last_outcome,     \* history: how the last completion attempt ended
    request,          \* history: `messages` of the last completion attempt
    all_turns,        \* history: every non-system entry ever appended, in order
    calls             \* history: number of chat calls begun

\* the state of the poll loop
loopVars == << pc, now, last_seen_id, last_debug_id, last_reply_time, text, reply,
               start_id, evaluated, chat_calls, sends, sent_text, declined_cooldown,
               last_cycle, exit_cause >>

\* the call frame of the specifications that study one function at a time
callVars == << fn_pc, fn_arg, fn_res >>

\* the state of the completion client
chatVars == << history, attempt, backoff, sleeps, last_outcome, request, all_turns, calls >>

vars == << loopVars, callVars, chatVars >>

\* Python's None for an identifier: below every msg_id
None == -1

\* SQL NULL in a text or blob column: a value no string equals (strings are
\* sequences of one-character elements)
NULL == << "NULL" >>

\* a local of run() that has not been assigned yet
NoText == << >>

-----------------------------------------------------------------------------
(* Configuration: src/zbot/config.py                                       *)

BOT_PREFIX == << "@", "z", "b", "o", "t" >>
BOT_OUT_PREFIX == << "ROBOT", " " >>
POLL_SECONDS == 2
COOLDOWN_SECONDS == 6

-----------------------------------------------------------------------------
(* Bounds of the model                                                     *)

MaxId == 3        \* message identifiers are 1..MaxId
Horizon == 8      \* seconds of clock explored after start-up
MaxDelay == 2     \* longest time a blocking call (or an oversleep) adds

\* time.time() is seconds since 1970: far beyond COOLDOWN_SECONDS, so the first
\* trigger is never declined against the initial last_reply_time of 0.0.
StartTime == COOLDOWN_SECONDS
MaxTime == StartTime + Horizon

Ids == 1..MaxId

-----------------------------------------------------------------------------
(* Strings                                                                 *)

IsSpace(c) == c = " "

\* str.lower() on the characters the model uses
LowerChar(c) ==
    CASE c = "Z" -> "z"
      [] c = "B" -> "b"
      [] c = "O" -> "o"
      [] c = "T" -> "t"
      [] c = "H" -> "h"
      [] OTHER -> c

Lower(s) == [i \in 1..Len(s) |-> LowerChar(s[i])]

\* str.startswith
StartsWith(s, p) == Len(s) >= Len(p) /\ SubSeq(s, 1, Len(p)) = p

\* str.strip()
Strip(s) ==
    LET keep == {i \in 1..Len(s) : ~IsSpace(s[i])}
    IN  IF keep = {} THEN << >>
        ELSE LET lo == CHOOSE i \in keep : \A j \in keep : i <= j
                 hi == CHOOSE i \in keep : \A j \in keep : i >= j
             IN  SubSeq(s, lo, hi)

-----------------------------------------------------------------------------
(* Inputs: what the collaborators can hand to the loop                     *)

TRIGGER == << "@", "z", "b", "o", "t", " ", "h", "i" >>
TRIGGER_UPPER == << " ", "@", "Z", "B", "o", "T", " ", "H", "i", " " >>
PLAIN == << "h", "i" >>

\* response.choices[0].message.content of a successful completion
Contents == { NULL, TRIGGER }

\* how one call of OpenAIClient.chat ends: a completion with some content, or
\* one of the failure categories that return a fallback string
ChatOutcomes == [kind : {"ok"}, content : Contents]
                  \cup [kind : {"fallback"}, content : {NULL}]

\* OpenAIClient.chat, seen from the loop: the string it returns
chat_result(outcome) ==
    IF outcome.kind = "ok"
    THEN LET c == IF outcome.content = NULL THEN << >> ELSE outcome.content
         IN  IF Strip(c) = << >> THEN << "ELLIPSIS" >> ELSE Strip(c)
    ELSE << "S", "o", "m", "e", "t", "h", "i", "n", "g" >>

Replies == { chat_result(o) : o \in ChatOutcomes }

\* Faulty variant: the reply is sent without the outgoing marker
Outgoing_no_marker(r) == r

\* the text send_reply hands to MessageSender
Outgoing(r) == BOT_OUT_PREFIX \o r

\* values of message.text: NULL, a trigger (padded, mixed case), plain talk, and
\* the bot's own replies
RawTexts == { NULL, TRIGGER_UPPER, PLAIN }
              \cup { Outgoing(r) : r \in Replies }

\* one row of MessagesDatabase.fetch_messages; attributedBody is NULL for
\* the rows of this specification
Rows == [msg_id : Ids, text : RawTexts, attributedBody : {NULL}, is_from_me : {0, 1}]

-----------------------------------------------------------------------------
(* MessageDecoder._scan_printable and decode_attributed_body               *)

\* default of the parameter min_len
MIN_LEN == 4

\* blobs of SpecScan: this many printable segments, a separator between two
MaxSegs == 2

\* the printable ASCII characters, in the order of their codes 32..126 (the
\* grave accent, code 96, by name)
ASCII ==
    << " ", "!", "\"", "#", "$", "%", "&", "'", "(", ")", "*", "+",
       ",", "-", ".", "/", "0", "1", "2", "3", "4", "5", "6", "7",
       "8", "9", ":", ";", "<", "=", ">", "?", "@", "A", "B", "C",
       "D", "E", "F", "G", "H", "I", "J", "K", "L", "M", "N", "O",
       "P", "Q", "R", "S", "T", "U", "V", "W", "X", "Y", "Z", "[",
       "\\", "]", "^", "_", "BACKTICK", "a", "b", "c", "d", "e", "f", "g",
       "h", "i", "j", "k", "l", "m", "n", "o", "p", "q", "r", "s",
       "t", "u", "v", "w", "x", "y", "z", "{", "|", "}", "~" >>

\* the bytes outside the printable range that the blobs use, by name
NonPrintableBytes == { "x00", "x1F", "x7F", "xC8" }

\* the value of a byte
Ord(b) ==
    CASE b = "x00" -> 0
      [] b = "x1F" -> 31
      [] b = "x7F" -> 127
      [] b = "xC8" -> 200
      [] OTHER     -> 31 + (CHOOSE i \in 1..Len(ASCII) : ASCII[i] = b)

\* bytes.decode of a run of printable bytes: each byte is its ASCII character
DecodeRun(run) == [i \in 1..Len(run) |-> ASCII[Ord(run[i]) - 31]]

BLACKLIST ==
    { << "s", "t", "r", "e", "a", "m", "t", "y", "p", "e", "d" >>,
      << "N", "S", "A", "t", "t", "r", "i", "b", "u", "t", "e", "d", "S", "t", "r", "i", "n", "g" >>,
      << "N", "S", "O", "b", "j", "e", "c", "t" >>,
      << "N", "S", "S", "t", "r", "i", "n", "g" >>,
      << "_", "_", "k", "I", "M", "M", "e", "s", "s", "a", "g", "e", "P", "a", "r", "t", "A", "t", "t", "r", "i", "b", "u", "t", "e", "N", "a", "m", "e" >> }

\* printable stretches of a blob: short, long, padded, blank, denylisted
ScanSegments ==
    { << >>,
      << "a", "b" >>,
      << "a", "b", "c", "d" >>,
      << "v", "w", "x", "y", "z" >>,
      << " ", " ", " ", "a", "b" >>,
      << " ", " ", " ", " ", " ", " " >>,
      << " ", "N", "S", "O", "b", "j", "e", "c", "t", " " >>,
      << "a", "b", " ", " ", "c", "d" >>,
      << "~", "~", "~", "~" >> }

ScanSeparators == { << >>, << "x00" >>, << "x7F" >>, << "x1F", "xC8" >> }

RECURSIVE BlobsOf(_)
\* blobs made of n segments
BlobsOf(n) ==
    IF n = 0 THEN { << >> }
    ELSE { b \o sep \o seg : b \in BlobsOf(n - 1), sep \in ScanSeparators,
                             seg \in ScanSegments }

ScanBlobs == BlobsOf(MaxSegs)

RECURSIVE ScanRuns(_, _, _, _)
\* lines 24-36: the loop over the bytes, from byte i on, and the last run
ScanRuns(blob, i, cur, runs) ==
    IF i > Len(blob)
    THEN IF Len(cur) >= MIN_LEN THEN Append(runs, DecodeRun(cur)) ELSE runs
    ELSE IF 32 <= Ord(blob[i]) /\ Ord(blob[i]) <= 126
         THEN ScanRuns(blob, i + 1, Append(cur, blob[i]), runs)
         ELSE ScanRuns(blob, i + 1, << >>,
                       IF Len(cur) >= MIN_LEN THEN Append(runs, DecodeRun(cur)) ELSE runs)

IsCandidate(r) == Strip(r) # << >> /\ Strip(r) \notin BLACKLIST

\* lines 38-42
ScanCandidates(runs) ==
    LET kept == SelectSeq(runs, IsCandidate)
    IN  [i \in 1..Len(kept) |-> Strip(kept[i])]

\* max(candidates, key=len): the first of the longest
MaxByLen(q) ==
    q[CHOOSE i \in 1..Len(q) :
        /\ \A j \in 1..Len(q) : Len(q[j]) <= Len(q[i])
        /\ \A j \in 1..(i - 1) : Len(q[j]) < Len(q[i])]

\* Faulty variant: of the longest candidates the last one is returned
scan_printable_last_wins(blob) ==
    LET candidates == ScanCandidates(ScanRuns(blob, 1, << >>, << >>))
    IN  IF candidates = << >> THEN << >>
        ELSE candidates[CHOOSE i \in 1..Len(candidates) :
               /\ \A j \in 1..Len(candidates) : Len(candidates[j]) <= Len(candidates[i])
               /\ \A j \in (i + 1)..Len(candidates) : Len(candidates[j]) < Len(candidates[i])]

\* lines 20-47
scan_printable(blob) ==
    LET candidates == ScanCandidates(ScanRuns(blob, 1, << >>, << >>))
    IN  IF candidates = << >> THEN << >> ELSE MaxByLen(candidates)

NULL_DESCRIPTION == << "(", "n", "u", "l", "l", ")" >>

\* lines 56-74; u is what NSUnarchiver does with the blob: it raises, or gives
\* an object with or without a string() method, whose str() is u.str
decode_attributed_body(blob, u) ==
    IF blob = << >> THEN << >>
    ELSE IF u.kind = "object" /\ u.has_string /\ Strip(u.string) # << >>
         THEN Strip(u.string)
    ELSE IF u.kind = "object" /\ Strip(u.str) # << >> /\ Strip(u.str) # NULL_DESCRIPTION
         THEN Strip(u.str)
    ELSE scan_printable(blob)

-----------------------------------------------------------------------------
(* MessageDecoder.extract_text; the rows of Spec have no attributedBody,   *)
(* those of SpecExtract have one together with the unarchiver's answer     *)

\* Faulty variant: the text column is returned as it is stored
extract_text_untrimmed(row) ==
    LET txt == IF row.text = NULL THEN << >> ELSE row.text
    IN  IF txt # << >> THEN txt
        ELSE IF row.attributedBody # NULL /\ row.attributedBody # << >>
             THEN decode_attributed_body(row.attributedBody, row.unarchived)
        ELSE << >>

\* lines 81-89
extract_text(row) ==
    LET txt == Strip(IF row.text = NULL THEN << >> ELSE row.text)
    IN  IF txt # << >> THEN txt
        ELSE IF row.attributedBody # NULL /\ row.attributedBody # << >>
             THEN decode_attributed_body(row.attributedBody, row.unarchived)
        ELSE << >>

-----------------------------------------------------------------------------
(* iMessageBot: the Response Policy                                        *)

\* lines 52-62 of should_respond: the three checks on the text
TextIsTrigger(t) ==
    /\ t # << >>
    /\ ~StartsWith(t, BOT_OUT_PREFIX)
    /\ StartsWith(Lower(t), Lower(BOT_PREFIX))

\* lines 64-67 of should_respond: the cooldown check, clock being time.time()
CooldownElapsed(clock, lrt) == ~(clock - lrt < COOLDOWN_SECONDS)

\* Faulty variant: the cooldown check left out
should_respond_no_cooldown(msg_id, t, from_me, clock, lrt) ==
    IF t = << >> THEN FALSE
    ELSE IF StartsWith(t, BOT_OUT_PREFIX) THEN FALSE
    ELSE IF ~StartsWith(Lower(t), Lower(BOT_PREFIX)) THEN FALSE
    ELSE TRUE

\* Faulty variant: the trigger prefix compared case-sensitively
should_respond_case_sensitive(msg_id, t, from_me, clock, lrt) ==
    IF t = << >> THEN FALSE
    ELSE IF StartsWith(t, BOT_OUT_PREFIX) THEN FALSE
    ELSE IF ~StartsWith(t, BOT_PREFIX) THEN FALSE
    ELSE IF clock - lrt < COOLDOWN_SECONDS THEN FALSE
    ELSE TRUE

\* Faulty variant: messages written by the operator are never answered
should_respond_not_from_me(msg_id, t, from_me, clock, lrt) ==
    IF t = << >> THEN FALSE
    ELSE IF from_me = 1 THEN FALSE
    ELSE IF StartsWith(t, BOT_OUT_PREFIX) THEN FALSE
    ELSE IF ~StartsWith(Lower(t), Lower(BOT_PREFIX)) THEN FALSE
    ELSE IF clock - lrt < COOLDOWN_SECONDS THEN FALSE
    ELSE TRUE

should_respond(msg_id, t, from_me, clock, lrt) ==
    IF t = << >> THEN FALSE
    ELSE IF StartsWith(t, BOT_OUT_PREFIX) THEN FALSE
    ELSE IF ~StartsWith(Lower(t), Lower(BOT_PREFIX)) THEN FALSE
    ELSE IF clock - lrt < COOLDOWN_SECONDS THEN FALSE
    ELSE TRUE

extract_prompt(t) == Strip(SubSeq(t, Len(BOT_PREFIX) + 1, Len(t)))

\* Faulty variants of the line-142 check: `<` for `<=`, `==` for `<=`, and the
\* check left out
AlreadySeen_lt(seen, msg_id) == seen # None /\ msg_id < seen

AlreadySeen_eq(seen, msg_id) == seen # None /\ msg_id = seen

AlreadySeen_off(seen, msg_id) == FALSE

\* line 142 of run: the check that skips a row already handled
AlreadySeen(seen, msg_id) == seen # None /\ msg_id <= seen

-----------------------------------------------------------------------------
(* iMessageBot.__init__ and the state before run() is called               *)

\* no function is under study
CallIdle ==
    /\ fn_pc = "none"
    /\ fn_arg = << >>
    /\ fn_res = << >>

\* a client just constructed (line 30), no chat call made
ClientIdle ==
    /\ history = << >>
    /\ attempt = 0
    /\ backoff = 0
    /\ sleeps = << >>
    /\ last_outcome = "none"
    /\ request = << >>
    /\ all_turns = << >>
    /\ calls = 0

Init ==
    /\ CallIdle
    /\ ClientIdle
    /\ pc = "init"
    /\ now = StartTime
    /\ last_seen_id = None
    /\ last_debug_id = None
    /\ last_reply_time = 0
    /\ text = NoText
    /\ reply = NoText
    /\ start_id = None
    /\ evaluated = << >>
    /\ chat_calls = << >>
    /\ sends = << >>
    /\ sent_text = NoText
    /\ declined_cooldown = {}
    /\ last_cycle = "none"
    /\ exit_cause = "none"

\* the histories no step of the cycle's first half writes
HistoryUnchanged == UNCHANGED << start_id, chat_calls, sends, sent_text >>

-----------------------------------------------------------------------------
(* iMessageBot.initialize                                                  *)

\* Faulty variant: start-up leaves the cursor unset
initialize_unset(rows) == last_seen_id

\* Faulty variant: an empty chat sets the cursor to zero
initialize_zero(rows) ==
    IF rows # << >> THEN rows[1].msg_id ELSE 0

\* the cursor after initialize(), rows being the result of fetch_messages(limit=1)
initialize(rows) ==
    IF rows # << >> THEN rows[1].msg_id ELSE last_seen_id

\* run(), lines 97-108: set_system_message and initialize; the chat holds the
\* messages 1..n at that moment (none when n = 0)
Initialize ==
    /\ pc = "init"
    /\ \E n \in 0..MaxId, txt \in RawTexts :
         LET rows == IF n = 0 THEN << >>
                     ELSE << [msg_id |-> n, text |-> txt,
                              attributedBody |-> NULL, is_from_me |-> 0] >>
         IN  /\ last_seen_id' = initialize(rows)
             /\ start_id' = IF n = 0 THEN None ELSE n
    /\ pc' = "fetch"
    /\ UNCHANGED << now, last_debug_id, last_reply_time, text, reply, evaluated,
                    chat_calls, sends, sent_text, declined_cooldown, last_cycle,
                    exit_cause >>

\* fetch_messages raises inside initialize(): line 108 is outside the try of
\* run(), so run() raises
InitializeRaises ==
    /\ pc = "init"
    /\ pc' = "fatal"
    /\ exit_cause' = "setup"
    /\ UNCHANGED << now, last_seen_id, last_debug_id, last_reply_time, text, reply,
                    start_id, evaluated, chat_calls, sends, sent_text,
                    declined_cooldown, last_cycle >>

-----------------------------------------------------------------------------
(* iMessageBot.run: one cycle of the loop                                  *)

\* Faulty variant: the per-cycle handler re-raises, which ends run()
LoopError_reraise ==
    /\ pc' = "fatal"
    /\ last_cycle' = "error"
    /\ exit_cause' = "error"

\* lines 168-171: `except Exception` logs, and the loop goes on to the sleep
LoopError ==
    /\ pc' = "sleep"
    /\ last_cycle' = "error"
    /\ exit_cause' = exit_cause

\* Faulty variant: an empty fetch goes back to the fetch without sleeping
PollEmpty_no_sleep ==
    /\ pc = "fetch"
    /\ pc' = "fetch"
    /\ last_cycle' = "empty"
    /\ UNCHANGED << now, last_seen_id, last_debug_id, last_reply_time, text, reply,
                    evaluated, declined_cooldown, exit_cause >>
    /\ HistoryUnchanged

\* lines 114-116: the fetch returned no row
PollEmpty ==
    /\ pc = "fetch"
    /\ pc' = "sleep"
    /\ last_cycle' = "empty"
    /\ UNCHANGED << now, last_seen_id, last_debug_id, last_reply_time, text, reply,
                    evaluated, declined_cooldown, exit_cause >>
    /\ HistoryUnchanged

\* line 113: fetch_messages raises (database locked, unreadable)
PollFetchRaises ==
    /\ pc = "fetch"
    /\ LoopError
    /\ UNCHANGED << now, last_seen_id, last_debug_id, last_reply_time, text, reply,
                    evaluated, declined_cooldown >>
    /\ HistoryUnchanged

\* lines 118-121: a row came back and reading or decoding it raises
PollDecodeRaises ==
    /\ pc = "fetch"
    /\ LoopError
    /\ UNCHANGED << now, last_seen_id, last_debug_id, last_reply_time, text, reply,
                    evaluated, declined_cooldown >>
    /\ HistoryUnchanged

\* Faulty variant: the row is marked seen only when the policy accepts it
PollRow_seen_on_accept(row) ==
    LET msg_id == row.msg_id
        from_me == row.is_from_me
    IN  /\ text' = extract_text(row)
        /\ last_debug_id' = msg_id
        /\ IF AlreadySeen(last_seen_id, msg_id)
           THEN /\ pc' = "sleep"
                /\ last_cycle' = "seen"
                /\ UNCHANGED << last_seen_id, evaluated, declined_cooldown >>
           ELSE /\ evaluated' = Append(evaluated, msg_id)
                /\ IF should_respond(msg_id, text', from_me, now, last_reply_time)
                   THEN /\ pc' = "chat"
                        /\ last_cycle' = "accepted"
                        /\ last_seen_id' = msg_id
                        /\ UNCHANGED declined_cooldown
                   ELSE /\ pc' = "sleep"
                        /\ last_cycle' = "declined"
                        /\ UNCHANGED last_seen_id
                        /\ declined_cooldown' =
                             IF TextIsTrigger(text')
                             THEN declined_cooldown \cup {msg_id}
                             ELSE declined_cooldown

\* Faulty variant: the cursor moves to the message that follows it, the
\* oldest unseen one, instead of to the newest row
PollRow_next_unseen(row) ==
    LET msg_id == IF last_seen_id # None /\ row.msg_id > last_seen_id
                  THEN last_seen_id + 1 ELSE row.msg_id
        from_me == row.is_from_me
    IN  /\ text' = extract_text(row)
        /\ last_debug_id' = IF row.msg_id # last_debug_id THEN row.msg_id ELSE last_debug_id
        /\ IF AlreadySeen(last_seen_id, msg_id)
           THEN /\ pc' = "sleep"
                /\ last_cycle' = "seen"
                /\ UNCHANGED << last_seen_id, evaluated, declined_cooldown >>
           ELSE /\ last_seen_id' = msg_id
                /\ evaluated' = Append(evaluated, msg_id)
                /\ IF should_respond(msg_id, text', from_me, now, last_reply_time)
                   THEN /\ pc' = "chat"
                        /\ last_cycle' = "accepted"
                        /\ UNCHANGED declined_cooldown
                   ELSE /\ pc' = "sleep"
                        /\ last_cycle' = "declined"
                        /\ declined_cooldown' =
                             IF TextIsTrigger(text')
                             THEN declined_cooldown \cup {msg_id}
                             ELSE declined_cooldown

\* lines 118-152 for the newest row `row`, up to the decision
PollRow(row) ==
    LET msg_id == row.msg_id
        from_me == row.is_from_me
    IN  /\ text' = extract_text(row)
        /\ last_debug_id' = IF msg_id # last_debug_id THEN msg_id ELSE last_debug_id
        /\ IF AlreadySeen(last_seen_id, msg_id)
           THEN /\ pc' = "sleep"
                /\ last_cycle' = "seen"
                /\ UNCHANGED << last_seen_id, evaluated, declined_cooldown >>
           ELSE /\ last_seen_id' = msg_id
                /\ evaluated' = Append(evaluated, msg_id)
                /\ IF should_respond(msg_id, text', from_me, now, last_reply_time)
                   THEN /\ pc' = "chat"
                        /\ last_cycle' = "accepted"
                        /\ UNCHANGED declined_cooldown
                   ELSE /\ pc' = "sleep"
                        /\ last_cycle' = "declined"
                        /\ declined_cooldown' =
                             IF TextIsTrigger(text')
                             THEN declined_cooldown \cup {msg_id}
                             ELSE declined_cooldown

Poll ==
    /\ pc = "fetch"
    /\ \E row \in Rows : PollRow(row)
    /\ UNCHANGED << now, last_reply_time, reply, exit_cause >>
    /\ HistoryUnchanged

\* lines 147-156: the decision raises after the row was marked seen
PollDecideRaises ==
    /\ pc = "fetch"
    /\ \E row \in Rows :
         /\ ~AlreadySeen(last_seen_id, row.msg_id)
         /\ text' = extract_text(row)
         /\ last_debug_id' = row.msg_id
         /\ last_seen_id' = row.msg_id
         /\ evaluated' = Append(evaluated, row.msg_id)
    /\ LoopError
    /\ UNCHANGED << now, last_reply_time, reply, declined_cooldown >>
    /\ HistoryUnchanged

\* Faulty variant: the cooldown timer is written when the completion call is
\* made, before it returns
Chat_stamps_first ==
    /\ pc = "chat"
    /\ last_reply_time' = now
    /\ \E outcome \in ChatOutcomes, d \in 0..MaxDelay :
         /\ now + d <= MaxTime
         /\ now' = now + d
         /\ reply' = chat_result(outcome)
    /\ chat_calls' = Append(chat_calls, last_debug_id)
    /\ pc' = "stamp"
    /\ UNCHANGED << last_seen_id, last_debug_id, text, start_id,
                    evaluated, sends, sent_text, declined_cooldown, last_cycle,
                    exit_cause >>

\* line 158: ai_client.chat(prompt) returns after d seconds
Chat ==
    /\ pc = "chat"
    /\ \E outcome \in ChatOutcomes, d \in 0..MaxDelay :
         /\ now + d <= MaxTime
         /\ now' = now + d
         /\ reply' = chat_result(outcome)
    /\ chat_calls' = Append(chat_calls, last_debug_id)
    /\ pc' = "stamp"
    /\ UNCHANGED << last_seen_id, last_debug_id, last_reply_time, text, start_id,
                    evaluated, sends, sent_text, declined_cooldown, last_cycle,
                    exit_cause >>

\* line 158: the completion collaborator raises
ChatRaises ==
    /\ pc = "chat"
    /\ chat_calls' = Append(chat_calls, last_debug_id)
    /\ LoopError
    /\ UNCHANGED << now, last_seen_id, last_debug_id, last_reply_time, text, reply,
                    start_id, evaluated, sends, sent_text, declined_cooldown >>

\* Faulty variant: the completion call is made again instead of going on to
\* the send
Stamp_calls_again ==
    /\ pc = "stamp"
    /\ last_reply_time' = now
    /\ pc' = "chat"
    /\ UNCHANGED << now, last_seen_id, last_debug_id, text, reply, start_id,
                    evaluated, chat_calls, sends, sent_text, declined_cooldown,
                    last_cycle, exit_cause >>

\* line 162: self.last_reply_time = time.time()
Stamp ==
    /\ pc = "stamp"
    /\ last_reply_time' = now
    /\ pc' = "send"
    /\ UNCHANGED << now, last_seen_id, last_debug_id, text, reply, start_id,
                    evaluated, chat_calls, sends, sent_text, declined_cooldown,
                    last_cycle, exit_cause >>

\* Faulty variant: a failed send gives the cooldown back
Send_rollback ==
    /\ pc = "send"
    /\ \E ok \in BOOLEAN, d \in 0..MaxDelay :
         /\ now + d <= MaxTime
         /\ now' = now + d
         /\ sends' = Append(sends, [id |-> last_debug_id,
                                    stamp |-> last_reply_time, ok |-> ok])
         /\ last_cycle' = IF ok THEN "sent" ELSE "send_failed"
         /\ last_reply_time' = IF ok THEN last_reply_time ELSE 0
    /\ sent_text' = Outgoing(reply)
    /\ pc' = "sleep"
    /\ UNCHANGED << last_seen_id, last_debug_id, text, reply,
                    start_id, evaluated, chat_calls, declined_cooldown, exit_cause >>

\* Faulty variant: the timer is written when the send attempt is over
Send_stamps_after ==
    /\ pc = "send"
    /\ \E ok \in BOOLEAN, d \in 0..MaxDelay :
         /\ now + d <= MaxTime
         /\ now' = now + d
         /\ sends' = Append(sends, [id |-> last_debug_id,
                                    stamp |-> last_reply_time, ok |-> ok])
         /\ last_cycle' = IF ok THEN "sent" ELSE "send_failed"
    /\ last_reply_time' = now'
    /\ sent_text' = Outgoing(reply)
    /\ pc' = "sleep"
    /\ UNCHANGED << last_seen_id, last_debug_id, text, reply,
                    start_id, evaluated, chat_calls, declined_cooldown, exit_cause >>

\* line 163 and send_reply: the send succeeds or raises (caught at line 91)
\* after d seconds
Send ==
    /\ pc = "send"
    /\ \E ok \in BOOLEAN, d \in 0..MaxDelay :
         /\ now + d <= MaxTime
         /\ now' = now + d
         /\ sends' = Append(sends, [id |-> last_debug_id,
                                    stamp |-> last_reply_time, ok |-> ok])
         /\ last_cycle' = IF ok THEN "sent" ELSE "send_failed"
    /\ sent_text' = Outgoing(reply)
    /\ pc' = "sleep"
    /\ UNCHANGED << last_seen_id, last_debug_id, last_reply_time, text, reply,
                    start_id, evaluated, chat_calls, declined_cooldown, exit_cause >>

\* lines 115, 143, 151, 171: time.sleep(POLL_SECONDS) sleeps at least that long.
\* The locals `text` and `reply` are dead at the top of the loop (each is
\* assigned before it is read again), so the model forgets them here.
Sleep ==
    /\ pc = "sleep"
    /\ \E d \in POLL_SECONDS..(POLL_SECONDS + MaxDelay) :
         /\ now + d <= MaxTime
         /\ now' = now + d
    /\ pc' = "fetch"
    /\ text' = NoText
    /\ reply' = NoText
    /\ UNCHANGED << last_seen_id, last_debug_id, last_reply_time,
                    start_id, evaluated, chat_calls, sends, sent_text,
                    declined_cooldown, last_cycle, exit_cause >>

\* Faulty variant: no handler around the sleep of line 171, so an interrupt
\* during the sleep that follows a send or a loop error leaves run() raising
Stop_sleep_unhandled ==
    /\ pc \in {"fetch", "chat", "stamp", "send", "sleep"}
    /\ pc' = IF pc = "sleep" /\ last_cycle \in {"sent", "send_failed", "error"}
             THEN "fatal" ELSE "done"
    /\ exit_cause' = "stop"
    /\ UNCHANGED << now, last_seen_id, last_debug_id, last_reply_time, text, reply,
                    start_id, evaluated, chat_calls, sends, sent_text,
                    declined_cooldown, last_cycle >>

\* lines 165-167 and 173-174: KeyboardInterrupt anywhere in the loop
Stop ==
    /\ pc \in {"fetch", "chat", "stamp", "send", "sleep"}
    /\ pc' = "done"
    /\ exit_cause' = "stop"
    /\ UNCHANGED << now, last_seen_id, last_debug_id, last_reply_time, text, reply,
                    start_id, evaluated, chat_calls, sends, sent_text,
                    declined_cooldown, last_cycle >>

Next ==
    \/ Initialize /\ UNCHANGED << callVars, chatVars >>
    \/ InitializeRaises /\ UNCHANGED << callVars, chatVars >>
    \/ PollEmpty /\ UNCHANGED << callVars, chatVars >>
    \/ PollFetchRaises /\ UNCHANGED << callVars, chatVars >>
    \/ PollDecodeRaises /\ UNCHANGED << callVars, chatVars >>
    \/ Poll /\ UNCHANGED << callVars, chatVars >>
    \/ PollDecideRaises /\ UNCHANGED << callVars, chatVars >>
    \/ Chat /\ UNCHANGED << callVars, chatVars >>
    \/ ChatRaises /\ UNCHANGED << callVars, chatVars >>
    \/ Stamp /\ UNCHANGED << callVars, chatVars >>
    \/ Send /\ UNCHANGED << callVars, chatVars >>
    \/ Sleep /\ UNCHANGED << callVars, chatVars >>
    \/ Stop /\ UNCHANGED << callVars, chatVars >>

Spec == Init /\ [][Next]_vars

-----------------------------------------------------------------------------
(* Helpers of the properties                                               *)

Range(q) == { q[i] : i \in 1..Len(q) }

NoDuplicates(q) == \A i, j \in 1..Len(q) : i < j => q[i] # q[j]

Last(q) == q[Len(q)]

MaxOf(S) == CHOOSE x \in S : \A y \in S : y <= x

SendIds == [i \in 1..Len(sends) |-> sends[i].id]

\* run() is in its loop, or was ended from inside it
Started == pc \notin {"init", "fatal"}

\* this step called should_respond
Evaluates == evaluated' # evaluated

-----------------------------------------------------------------------------
(* Properties                                                              *)

\* C1: an identifier at or below the Conversation Cursor is never evaluated
\* again: every call of should_respond is for an identifier above the cursor
\* and above every identifier evaluated before, and the completion call and
\* the send attempt each happen at most once per identifier.
C1_AtMostOnceState ==
    /\ NoDuplicates(evaluated)
    /\ NoDuplicates(chat_calls)
    /\ NoDuplicates(SendIds)
    /\ Range(SendIds) \subseteq Range(chat_calls)
    /\ Range(chat_calls) \subseteq Range(evaluated)

C1_AtMostOnceStep ==
    Evaluates =>
        /\ evaluated' = Append(evaluated, last_debug_id')
        /\ last_seen_id # None => last_debug_id' > last_seen_id
        /\ \A id \in Range(evaluated) : last_debug_id' > id

C1_AtMostOnce == [] C1_AtMostOnceState /\ [][C1_AtMostOnceStep]_vars

\* C1 witness: after two evaluations and a send, a fetch returned an already
\* evaluated identifier below the cursor, and the cycle skipped it.
C1_Witness ==
    /\ last_cycle = "seen"
    /\ Len(evaluated) >= 2
    /\ Len(sends) >= 1
    /\ last_debug_id \in Range(evaluated)
    /\ last_debug_id < last_seen_id

\* C2: the cooldown-timer values recorded right before any two send attempts
\* differ by at least COOLDOWN_SECONDS.
C2_CooldownBetweenSends ==
    \A i, j \in 1..Len(sends) :
        i < j => sends[j].stamp - sends[i].stamp >= COOLDOWN_SECONDS

\* C2 witness: two send attempts, the first one failed, and a trigger that
\* arrived in between was declined.
C2_Witness ==
    /\ Len(sends) >= 2
    /\ ~sends[1].ok
    /\ \E id \in declined_cooldown : sends[1].id < id /\ id < sends[2].id

\* C3: once set, the Conversation Cursor never decreases, in any step.
C3_CursorNeverDecreases ==
    [][last_seen_id # None =>
          (last_seen_id' # None /\ last_seen_id' >= last_seen_id)]_vars

\* C3 witness: the cursor is set, a fetch returned a smaller identifier, and
\* the last cycle ended in an exception.
C3_Witness ==
    /\ last_cycle = "error"
    /\ pc = "sleep"
    /\ evaluated # << >>
    /\ last_debug_id # None
    /\ last_debug_id < last_seen_id

\* C4: initialize() sets the cursor to the newest identifier that exists at
\* start-up, and no identifier at or below it ever gets a completion call or a
\* send.
C4_HistoryIsNeverNew ==
    (Started /\ start_id # None) =>
        /\ last_seen_id >= start_id
        /\ evaluated = << >> => last_seen_id = start_id
        /\ \A id \in Range(evaluated) \cup Range(chat_calls) \cup Range(SendIds) :
               id > start_id

\* C4 witness: a message that existed at start-up came back as the newest row
\* with a valid trigger text while the cooldown was over, and was skipped.
C4_Witness ==
    /\ start_id # None
    /\ last_cycle = "seen"
    /\ last_debug_id <= start_id
    /\ TextIsTrigger(text)
    /\ CooldownElapsed(now, last_reply_time)

\* C5: no exception of a cycle ends the loop: the step that raises goes to the
\* sleep, the sleep lasts the poll interval and leads to the next fetch;
\* run() ends only by a stop request or by a failure before the loop.
C5_ErrorsDoNotEndLoop ==
    [][ /\ (pc' = "fatal" /\ pc # "fatal") => (pc = "init" /\ exit_cause' = "setup")
        /\ (pc' = "done" /\ pc # "done") => exit_cause' = "stop"
        /\ (pc \in {"fetch", "chat"} /\ last_cycle' = "error" /\ exit_cause' # "stop")
               => pc' = "sleep"
        /\ (pc = "send" /\ last_cycle' = "send_failed" /\ exit_cause' # "stop")
               => pc' = "sleep"
        /\ (pc = "sleep" /\ pc' \notin {"sleep", "done"}) =>
               (pc' = "fetch" /\ now' >= now + POLL_SECONDS)
      ]_vars

\* C5 witness: a send failed, a later cycle raised, and the loop is about to
\* fetch again.
C5_Witness ==
    /\ pc = "fetch"
    /\ last_cycle = "error"
    /\ \E i \in 1..Len(sends) : ~sends[i].ok

\* C6: a trigger declined because of the cooldown is marked seen and never
\* gets a completion call or a send afterwards.
C6_DeclinedIsNeverRetried ==
    \A id \in declined_cooldown :
        /\ last_seen_id # None
        /\ id <= last_seen_id
        /\ id \notin Range(chat_calls)
        /\ id \notin Range(SendIds)

\* C6 witness: the trigger declined for the cooldown came back as the newest
\* row once the cooldown was over, and the cycle skipped it.
C6_Witness ==
    /\ last_cycle = "seen"
    /\ last_debug_id \in declined_cooldown
    /\ TextIsTrigger(text)
    /\ CooldownElapsed(now, last_reply_time)

\* C7: a failed send leaves last_reply_time at the value written just before
\* the attempt, is not retried, and a trigger evaluated less than
\* COOLDOWN_SECONDS after that value is declined.
C7_FailedSendState ==
    /\ last_cycle = "send_failed" =>
           (~Last(sends).ok /\ last_reply_time = Last(sends).stamp)
    /\ \A i, j \in 1..Len(sends) : (~sends[i].ok /\ i # j) => sends[i].id # sends[j].id

C7_FailedSendStep ==
    /\ (pc = "send" /\ last_cycle' = "send_failed") =>
           (last_reply_time' = last_reply_time /\ Last(sends').stamp = last_reply_time)
    /\ ( /\ sends # << >>
         /\ ~Last(sends).ok
         /\ Evaluates
         /\ TextIsTrigger(text')
         /\ now - Last(sends).stamp < COOLDOWN_SECONDS ) =>
           (pc' = "sleep" /\ chat_calls' = chat_calls /\ sends' = sends)

C8_TimerWrittenOnlyAfterCompletion ==
    [][last_reply_time' # last_reply_time =>
          /\ pc = "stamp"
          /\ last_cycle = "accepted"
          /\ chat_calls # << >>
          /\ Last(chat_calls) = last_seen_id
          /\ reply \in Replies
          /\ last_reply_time' = now
      ]_vars

\* C8 witness: the timer has just been written for the second time, after a
\* cycle declined a trigger.
C8_Witness ==
    /\ pc = "send"
    /\ last_reply_time = now
    /\ Len(sends) >= 1
    /\ declined_cooldown # {}

\* C9: the cursor equals the maximum identifier evaluated so far, or the
\* start-up identifier when none was evaluated.
C9_CursorIsMaxEvaluated ==
    Started =>
        last_seen_id = IF evaluated = << >> THEN start_id
                       ELSE MaxOf(Range(evaluated))

\* C9 witness: three cycles evaluated a message each, then fetches returned
\* smaller identifiers.
C9_Witness ==
    /\ Len(evaluated) >= 3
    /\ last_cycle = "seen"
    /\ last_debug_id < last_seen_id
    /\ start_id = None

\* C10: every text handed to the send collaborator begins with BOT_OUT_PREFIX
\* and, read back as a row, is declined with the cooldown over or not; a new
\* row whose text begins with the marker advances the cursor and gets no
\* completion call and no send.
C10_SentTextState ==
    sent_text # NoText =>
        /\ StartsWith(sent_text, BOT_OUT_PREFIX)
        /\ LET row == [msg_id |-> MaxId, text |-> sent_text,
                       attributedBody |-> NULL, is_from_me |-> 1]
           IN  /\ StartsWith(extract_text(row), BOT_OUT_PREFIX)
               /\ \A lrt \in {0, now} :
                    ~should_respond(MaxId, extract_text(row), 1, now, lrt)

C10_OwnReplyStep ==
    (Evaluates /\ StartsWith(text', BOT_OUT_PREFIX)) =>
        /\ last_seen_id' = last_debug_id'
        /\ pc' = "sleep"
        /\ chat_calls' = chat_calls
        /\ sends' = sends
        /\ last_reply_time' = last_reply_time

-----------------------------------------------------------------------------
(* iMessageBot.should_respond as a function: specification SpecPolicy      *)

\* texts handed to should_respond: decoded texts are trimmed (extract_text)
PolicyTexts ==
    { << >>, TRIGGER, Strip(TRIGGER_UPPER), PLAIN, BOT_PREFIX,
      << "@", "z", "b", "o" >>,
      << "@", "Z", "B", "O", "T" >>,
      << "h", "i", " ", "@", "z", "b", "o", "t" >>,
      << "ROBOT" >>,
      BOT_OUT_PREFIX \o << "@" >>,
      Outgoing(TRIGGER) }

\* the clock is non-decreasing, so last_reply_time is 0.0 or an earlier reading
PolicyArgs ==
    { a \in [msg_id : Ids, text : PolicyTexts, from_me : {0, 1},
             clock : StartTime..MaxTime, lrt : {0} \cup (StartTime..MaxTime)] :
        a.lrt <= a.clock }

PolicyInit ==
    /\ ClientIdle
    /\ fn_pc = "should_respond"
    /\ fn_arg \in PolicyArgs
    /\ fn_res = << >>
    /\ pc = "init"
    /\ now = fn_arg.clock
    /\ last_seen_id = None
    /\ last_debug_id = None
    /\ last_reply_time = fn_arg.lrt
    /\ text = NoText
    /\ reply = NoText
    /\ start_id = None
    /\ evaluated = << >>
    /\ chat_calls = << >>
    /\ sends = << >>
    /\ sent_text = NoText
    /\ declined_cooldown = {}
    /\ last_cycle = "none"
    /\ exit_cause = "none"

\* one call of should_respond(msg_id, text, from_me) with self.last_reply_time
\* and time.time() as the state gives them
PolicyCall ==
    /\ fn_pc = "should_respond"
    /\ fn_res' = << should_respond(fn_arg.msg_id, fn_arg.text, fn_arg.from_me,
                                   now, last_reply_time) >>
    /\ fn_pc' = "returned"
    /\ UNCHANGED << fn_arg, loopVars, chatVars >>

PolicyNext == PolicyCall

SpecPolicy == PolicyInit /\ [][PolicyNext]_vars

\* case-insensitive comparison of the first Len(p) characters, one by one
BeginsWithIgnoringCase(s, p) ==
    /\ Len(s) >= Len(p)
    /\ \A i \in 1..Len(p) : LowerChar(s[i]) = LowerChar(p[i])

\* C11: should_respond returns true exactly when the text is non-empty, does
\* not begin with the outgoing marker, begins with the trigger prefix whatever
\* the case, and at least COOLDOWN_SECONDS have passed since last_reply_time.
C11_ShouldRespondIff ==
    fn_pc = "returned" =>
        fn_res = << /\ Len(fn_arg.text) > 0
                    /\ ~(\E k \in 0..Len(fn_arg.text) :
                           SubSeq(fn_arg.text, 1, k) = BOT_OUT_PREFIX)
                    /\ BeginsWithIgnoringCase(fn_arg.text, BOT_PREFIX)
                    /\ fn_arg.clock - fn_arg.lrt >= COOLDOWN_SECONDS >>

\* C11 witness: an upper-case trigger evaluated exactly COOLDOWN_SECONDS after
\* the last reply was accepted.
C11_Witness ==
    /\ fn_pc = "returned"
    /\ fn_res = << TRUE >>
    /\ fn_arg.text = Strip(TRIGGER_UPPER)
    /\ fn_arg.lrt > 0
    /\ fn_arg.clock - fn_arg.lrt = COOLDOWN_SECONDS

\* C18: the decision is the same for is_from_me = 0 and is_from_me = 1, the
\* text, the clock and last_reply_time being equal.
C18_OriginIsIgnored ==
    fn_pc = "returned" =>
        fn_res = << should_respond(fn_arg.msg_id, fn_arg.text, 1 - fn_arg.from_me,
                                   fn_arg.clock, fn_arg.lrt) >>

\* C18 witness: a trigger written by the operator was accepted.
C18_Witness ==
    /\ fn_pc = "returned"
    /\ fn_arg.from_me = 1
    /\ TextIsTrigger(fn_arg.text)
    /\ fn_res = << TRUE >>

\* C12, step part: the step of a stop request returns from run() and touches
\* no history; after it no step fetches, calls the completion or sends.
C12_StopStep ==
    [][ /\ (exit_cause' = "stop" /\ exit_cause # "stop") =>
               /\ pc \in {"fetch", "chat", "stamp", "send", "sleep"}
               /\ pc' = "done"
               /\ evaluated' = evaluated
               /\ chat_calls' = chat_calls
               /\ sends' = sends
        /\ exit_cause = "stop" =>
               /\ pc' = pc
               /\ evaluated' = evaluated
               /\ chat_calls' = chat_calls
               /\ sends' = sends
      ]_vars

\* C12, state part: a stop request is possible at every point of the loop,
\* and a stopped run has returned and takes no further step.
C12_StopState ==
    /\ pc \in {"fetch", "chat", "stamp", "send", "sleep"} => ENABLED Stop
    /\ exit_cause = "stop" => (pc = "done" /\ ~ENABLED Next)

\* C12: a stop request at any point of the loop (fetch, completion call,
\* stamp, send, any sleep) makes run() return normally, and after it there is
\* no further fetch, completion call or send.
C12_StopIsClean == []C12_StopState /\ C12_StopStep

\* C12 witness: the stop came during the sleep that follows a failed send, and
\* an earlier completion's reply was sent.
C12_Witness ==
    /\ pc = "done"
    /\ exit_cause = "stop"
    /\ last_cycle = "send_failed"
    /\ \E i \in 1..Len(sends) : sends[i].ok

-----------------------------------------------------------------------------
(* OpenAIClient: set_system_message, trim_history, chat: specification     *)
(* SpecChat                                                                 *)

MAX_CONTEXT_MESSAGES == 20
MAX_ATTEMPTS == 8
BACKOFF_START == 75
BACKOFF_CAP == 2000

\* chat calls of one run of SpecChat; more than MAX_CONTEXT_MESSAGES / 2, so
\* that trimming happens
MaxCalls == 11

QUOTA_FALLBACK == << "OpenAI quota/billing issue -- check API billing." >>
RATE_LIMIT_FALLBACK == << "I'm rate-limited -- try again in a minute." >>
AUTH_FALLBACK == << "OpenAI auth failed. Check OPENAI_API_KEY." >>
OTHER_FALLBACK == << "Something went wrong calling OpenAI." >>

\* the poll loop is not running
LoopIdle ==
    /\ pc = "init"
    /\ now = StartTime
    /\ last_seen_id = None
    /\ last_debug_id = None
    /\ last_reply_time = 0
    /\ text = NoText
    /\ reply = NoText
    /\ start_id = None
    /\ evaluated = << >>
    /\ chat_calls = << >>
    /\ sends = << >>
    /\ sent_text = NoText
    /\ declined_cooldown = {}
    /\ last_cycle = "none"
    /\ exit_cause = "none"

Letters == << "a", "b", "c", "d", "e", "f", "g", "h", "i", "j", "k", "l", "m", "n" >>

\* the system message of run() and a second one
SystemMessages == { << "s", "1" >>, << "s", "2" >> }

\* user_text of the k-th chat call: every call has its own prompt
Prompt(k) == << "q", Letters[k] >>

\* message.content of the k-th call's completion: None, empty, blank, or a
\* padded text of its own
CompletionContent(k) ==
    CASE k % 4 = 1 -> << " ", "r", Letters[k], " " >>
      [] k % 4 = 2 -> NULL
      [] k % 8 = 3 -> << " ", " " >>
      [] k % 8 = 7 -> << >>
      [] OTHER     -> << "r", Letters[k] >>

Entry(role, content) == [role |-> role, content |-> content]

\* lines 34-37
set_system_message(h, content) ==
    IF h # << >> /\ h[1].role = "system"
    THEN [h EXCEPT ![1] = Entry("system", content)]
    ELSE << Entry("system", content) >> \o h

\* Faulty variant: the retained entries are the oldest ones
trim_history_keeps_oldest(h, max_messages) ==
    LET system == IF h # << >> /\ h[1].role = "system" THEN SubSeq(h, 1, 1) ELSE << >>
        rest   == IF system # << >> THEN Tail(h) ELSE h
        kept   == IF Len(rest) > max_messages
                  THEN SubSeq(rest, 1, max_messages)
                  ELSE rest
    IN  system \o kept

\* lines 43-53; rest[-max_messages:] is the whole list when max_messages is 0
trim_history(h, max_messages) ==
    LET system == IF h # << >> /\ h[1].role = "system" THEN SubSeq(h, 1, 1) ELSE << >>
        rest   == IF system # << >> THEN Tail(h) ELSE h
        kept   == IF Len(rest) > max_messages /\ max_messages > 0
                  THEN SubSeq(rest, Len(rest) - max_messages + 1, Len(rest))
                  ELSE rest
    IN  system \o kept

\* Faulty variant: a blank completion is returned as the empty string
NormalizeReply_no_placeholder(content) ==
    Strip(IF content = NULL THEN << >> ELSE content)

\* line 74: (reply or "").strip() or the ellipsis
NormalizeReply(content) ==
    LET c == IF content = NULL THEN << >> ELSE content
    IN  IF Strip(c) = << >> THEN << "ELLIPSIS" >> ELSE Strip(c)

ChatInit ==
    /\ LoopIdle
    /\ ClientIdle
    /\ fn_pc = "idle"
    /\ fn_arg = << >>
    /\ fn_res = << >>

\* set_system_message, between two chat calls
SetSystemMessage ==
    /\ fn_pc \in {"idle", "returned"}
    /\ \E c \in SystemMessages :
         /\ history # set_system_message(history, c)
         /\ history' = set_system_message(history, c)
    /\ UNCHANGED << fn_pc, fn_arg, fn_res, attempt, backoff, sleeps, last_outcome,
                    request, all_turns, calls, loopVars >>

\* Faulty variant: every call starts from a history of its own
ChatBegin_fresh_history ==
    /\ fn_pc \in {"idle", "returned"}
    /\ calls < MaxCalls
    /\ calls' = calls + 1
    /\ fn_arg' = << Prompt(calls + 1) >>
    /\ history' = << Entry("user", Prompt(calls + 1)) >>
    /\ all_turns' = Append(all_turns, Entry("user", Prompt(calls + 1)))
    /\ attempt' = 0
    /\ backoff' = BACKOFF_START
    /\ sleeps' = << >>
    /\ last_outcome' = "none"
    /\ request' = << >>
    /\ fn_res' = << >>
    /\ fn_pc' = "create"
    /\ UNCHANGED loopVars

\* lines 59-63: the prompt is appended, the history trimmed, the counters set
ChatBegin ==
    /\ fn_pc \in {"idle", "returned"}
    /\ calls < MaxCalls
    /\ calls' = calls + 1
    /\ fn_arg' = << Prompt(calls + 1) >>
    /\ history' = trim_history(Append(history, Entry("user", Prompt(calls + 1))),
                               MAX_CONTEXT_MESSAGES)
    /\ all_turns' = Append(all_turns, Entry("user", Prompt(calls + 1)))
    /\ attempt' = 0
    /\ backoff' = BACKOFF_START
    /\ sleeps' = << >>
    /\ last_outcome' = "none"
    /\ request' = << >>
    /\ fn_res' = << >>
    /\ fn_pc' = "create"
    /\ UNCHANGED loopVars

\* lines 66-79: the attempt succeeds
AttemptOk ==
    /\ fn_pc = "create"
    /\ attempt' = attempt + 1
    /\ request' = history
    /\ last_outcome' = "ok"
    /\ LET r == NormalizeReply(CompletionContent(calls))
       IN  /\ history' = trim_history(Append(history, Entry("assistant", r)),
                                      MAX_CONTEXT_MESSAGES)
           /\ all_turns' = Append(all_turns, Entry("assistant", r))
           /\ fn_res' = << r >>
    /\ fn_pc' = "returned"
    /\ UNCHANGED << fn_arg, backoff, sleeps, calls, loopVars >>

\* Faulty variant: a call that ends with a fallback takes its prompt back out of
\* the history
ReturnFallback_drops_user(kind, fallback) ==
    /\ fn_pc = "create"
    /\ attempt' = attempt + 1
    /\ request' = history
    /\ last_outcome' = kind
    /\ fn_res' = << fallback >>
    /\ fn_pc' = "returned"
    /\ history' = SubSeq(history, 1, Len(history) - 1)
    /\ UNCHANGED << fn_arg, all_turns, backoff, sleeps, calls, loopVars >>

\* an attempt that ends chat() with a fallback string
ReturnFallback(kind, fallback) ==
    /\ fn_pc = "create"
    /\ attempt' = attempt + 1
    /\ request' = history
    /\ last_outcome' = kind
    /\ fn_res' = << fallback >>
    /\ fn_pc' = "returned"
    /\ UNCHANGED << fn_arg, history, all_turns, backoff, sleeps, calls, loopVars >>

\* Faulty variant: the cap is tested with > instead of >=
AttemptRateLimited_one_more ==
    /\ fn_pc = "create"
    /\ IF attempt + 1 > MAX_ATTEMPTS
       THEN ReturnFallback("rate_limit", RATE_LIMIT_FALLBACK)
       ELSE /\ attempt' = attempt + 1
            /\ request' = history
            /\ last_outcome' = "rate_limit"
            /\ sleeps' = Append(sleeps, IF backoff < BACKOFF_CAP THEN backoff ELSE BACKOFF_CAP)
            /\ backoff' = backoff * 2
            /\ UNCHANGED << fn_pc, fn_arg, fn_res, history, all_turns, calls, loopVars >>

\* lines 81-94: RateLimitError without insufficient_quota: the fallback on the
\* MAX_ATTEMPTS-th attempt, else a sleep of min(20 s, backoff) (times a jitter
\* in [0.8, 1.2), not modelled), the backoff doubled, and another attempt
AttemptRateLimited ==
    /\ fn_pc = "create"
    /\ IF attempt + 1 >= MAX_ATTEMPTS
       THEN ReturnFallback("rate_limit", RATE_LIMIT_FALLBACK)
       ELSE /\ attempt' = attempt + 1
            /\ request' = history
            /\ last_outcome' = "rate_limit"
            /\ sleeps' = Append(sleeps, IF backoff < BACKOFF_CAP THEN backoff ELSE BACKOFF_CAP)
            /\ backoff' = backoff * 2
            /\ UNCHANGED << fn_pc, fn_arg, fn_res, history, all_turns, calls, loopVars >>

\* Faulty variant: insufficient_quota is not told apart from a rate limit
AttemptQuota_retries ==
    /\ fn_pc = "create"
    /\ IF attempt + 1 >= MAX_ATTEMPTS
       THEN ReturnFallback("quota", RATE_LIMIT_FALLBACK)
       ELSE /\ attempt' = attempt + 1
            /\ request' = history
            /\ last_outcome' = "quota"
            /\ sleeps' = Append(sleeps, IF backoff < BACKOFF_CAP THEN backoff ELSE BACKOFF_CAP)
            /\ backoff' = backoff * 2
            /\ UNCHANGED << fn_pc, fn_arg, fn_res, history, all_turns, calls, loopVars >>

\* lines 81-85: RateLimitError whose repr holds insufficient_quota
AttemptQuota ==
    /\ fn_pc = "create"
    /\ ReturnFallback("quota", QUOTA_FALLBACK)

\* lines 96-98
AttemptAuth ==
    /\ fn_pc = "create"
    /\ ReturnFallback("auth", AUTH_FALLBACK)

\* lines 100-102: any other Exception, raised by create or by line 73
AttemptOther ==
    /\ fn_pc = "create"
    /\ ReturnFallback("other", OTHER_FALLBACK)

ChatNext ==
    \/ SetSystemMessage
    \/ ChatBegin
    \/ AttemptOk
    \/ AttemptRateLimited
    \/ AttemptQuota
    \/ AttemptAuth
    \/ AttemptOther

SpecChat == ChatInit /\ [][ChatNext]_vars

IsSystem(e) == e.role = "system"
IsTurn(e) == e.role # "system"

NonSystem(h) == SelectSeq(h, IsTurn)

\* the last n entries of q, or all of q when it is shorter
LastN(q, n) == IF Len(q) > n THEN SubSeq(q, Len(q) - n + 1, Len(q)) ELSE q

FallbackOf(kind) ==
    CASE kind = "quota"      -> QUOTA_FALLBACK
      [] kind = "auth"       -> AUTH_FALLBACK
      [] kind = "other"      -> OTHER_FALLBACK
      [] kind = "rate_limit" -> RATE_LIMIT_FALLBACK

\* C13, state part: never more than MAX_ATTEMPTS attempts; a call that has not
\* returned has an attempt left; what is returned is a non-empty string.
C13_ChatState ==
    /\ fn_pc \in {"idle", "create", "returned"}
    /\ attempt <= MAX_ATTEMPTS
    /\ fn_pc = "create" => attempt < MAX_ATTEMPTS
    /\ fn_pc = "returned" => (Len(fn_res) = 1 /\ fn_res[1] # << >>)

\* C13, step part: every step of a call is one attempt; the call goes on only
\* after a rate-limit error that is not a quota exhaustion, and the
\* MAX_ATTEMPTS-th rate-limit error returns the rate-limit fallback.
C13_ChatStep ==
    [][ fn_pc = "create" =>
          /\ attempt' = attempt + 1
          /\ fn_pc' \in {"create", "returned"}
          /\ fn_pc' = "create" => last_outcome' = "rate_limit"
          /\ (last_outcome' = "rate_limit" /\ attempt' = MAX_ATTEMPTS) =>
                 (fn_pc' = "returned" /\ fn_res' = << RATE_LIMIT_FALLBACK >>)
      ]_vars

\* C13: chat ends with a returned string after at most MAX_ATTEMPTS attempts,
\* retries only after a plain rate-limit error, and returns the rate-limit
\* fallback on the MAX_ATTEMPTS-th consecutive one; it never raises.
C13_ChatAlwaysReturns == []C13_ChatState /\ C13_ChatStep

\* C13 witness: MAX_ATTEMPTS rate-limit errors in a row, with a sleep between
\* each two.
C13_Witness ==
    /\ fn_pc = "returned"
    /\ attempt = MAX_ATTEMPTS
    /\ Len(sleeps) = MAX_ATTEMPTS - 1
    /\ fn_res = << RATE_LIMIT_FALLBACK >>

\* C14: a quota, authentication or other failure ends chat() on the attempt
\* where it occurs, without a sleep or a further attempt, returning the fixed
\* string of its category, also after earlier retryable errors.
C14_NonRetryableEndsCall ==
    [][ /\ (fn_pc = "create" /\ last_outcome' \in {"quota", "auth", "other"}) =>
               /\ fn_pc' = "returned"
               /\ fn_res' = << FallbackOf(last_outcome') >>
               /\ attempt' = attempt + 1
               /\ sleeps' = sleeps
               /\ history' = history
        /\ (fn_pc = "returned" /\ calls' = calls) =>
               (attempt' = attempt /\ sleeps' = sleeps /\ fn_res' = fn_res)
      ]_vars

\* C14 witness: the quota failure came on the third attempt, after two
\* retryable rate-limit errors.
C14_Witness ==
    /\ fn_pc = "returned"
    /\ last_outcome = "quota"
    /\ attempt = 3
    /\ Len(sleeps) = 2
    /\ fn_res = << QUOTA_FALLBACK >>

\* C15, state part: at most MAX_CONTEXT_MESSAGES non-system entries, which are
\* the newest ones ever appended, in order; a system entry is single and first.
C15_HistoryState ==
    /\ Len(NonSystem(history)) <= MAX_CONTEXT_MESSAGES
    /\ NonSystem(history) = LastN(all_turns, MAX_CONTEXT_MESSAGES)
    /\ \A i \in 1..Len(history) : IsSystem(history[i]) => i = 1

\* C15, step part: set_system_message leaves a system entry at index 0, and a
\* system entry once there stays there.
C15_HistoryStep ==
    [][ /\ (fn_pc' = fn_pc /\ history' # history) =>
               (history' # << >> /\ IsSystem(history'[1]))
        /\ (history # << >> /\ IsSystem(history[1])) =>
               (history' # << >> /\ IsSystem(history'[1]))
      ]_vars

\* C15: after any sequence of set_system_message and chat calls the history
\* holds at most MAX_CONTEXT_MESSAGES non-system entries, the dropped ones are
\* the oldest, and a system message once set is the only one and is first.
C15_HistoryBounded == []C15_HistoryState /\ C15_HistoryStep

\* C15 witness: entries were dropped, a call had failed in between, and the
\* system message set after the first calls is first.
C15_Witness ==
    /\ Len(all_turns) > MAX_CONTEXT_MESSAGES
    /\ Len(history) = MAX_CONTEXT_MESSAGES + 1
    /\ IsSystem(history[1])
    /\ \E i \in 2..(Len(history) - 1) :
           history[i].role = "user" /\ history[i + 1].role = "user"

\* the non-system entries that existed when the last attempt was made
TurnsAtRequest ==
    IF last_outcome = "ok" THEN SubSeq(all_turns, 1, Len(all_turns) - 1) ELSE all_turns

\* C16 as stated: the completion request of a trigger is made of the system
\* message and the current prompt alone.
C16_RequestFromCurrentMessageAlone ==
    request # << >> => NonSystem(request) = << Entry("user", fn_arg[1]) >>

\* C16, amended: the request ends with the current prompt and carries before
\* it the newest earlier prompts and replies kept in OpenAIClient.history, up
\* to MAX_CONTEXT_MESSAGES non-system entries in all, after the system entry.
C16_RequestCarriesHistory ==
    request # << >> =>
        /\ request[Len(request)] = Entry("user", fn_arg[1])
        /\ NonSystem(request) = LastN(TurnsAtRequest, MAX_CONTEXT_MESSAGES)
        /\ \A i \in 1..Len(request) : IsSystem(request[i]) => i = 1

\* C16 witness: the request of the last trigger held the system message and
\* MAX_CONTEXT_MESSAGES entries, all but the last from earlier triggers.
C16_Witness ==
    /\ fn_pc = "returned"
    /\ Len(request) = MAX_CONTEXT_MESSAGES + 1
    /\ IsSystem(request[1])
    /\ request[2] # Entry("user", fn_arg[1])
    /\ request[Len(request)] = Entry("user", fn_arg[1])

-----------------------------------------------------------------------------
(* cli.main: the set-up that precedes iMessageBot.run: specification       *)
(* SpecMain                                                                 *)

\* chat ROWIDs of the database
MaxChat == 2

\* OPENAI_API_KEY: unset, empty, blank, or a key
ApiKeys == { NULL, << >>, << " " >>, << "s", "k" >> }

\* what main() meets: the environment variable, --chat-id, the chats of the
\* database, those of them that pass the --hint filter, and what the operator
\* types in the picker (0: quit; else the chat of the chosen line)
MainArgs ==
    { a \in [api_key : ApiKeys, chat_id : {None} \cup (0..MaxChat),
             chats : SUBSET (1..MaxChat), matching : SUBSET (1..MaxChat),
             choice : 0..MaxChat] :
        /\ a.matching \subseteq a.chats
        /\ a.choice \in {0} \cup a.matching }

MainInit ==
    /\ LoopIdle
    /\ ClientIdle
    /\ fn_pc = "main"
    /\ fn_arg \in MainArgs
    /\ fn_res = << >>

\* the chat main() goes on with
chosen_chat_id == IF fn_arg.chat_id = None THEN fn_arg.choice ELSE fn_arg.chat_id

Raise(error) ==
    /\ fn_pc' = "raised"
    /\ fn_res' = << error >>

\* Faulty variant: the credential is read when the first request is made
MainCreateClient_lazy_key ==
    /\ fn_pc = "main"
    /\ fn_pc' = "select"
    /\ fn_res' = fn_res
    /\ UNCHANGED << fn_arg, loopVars, chatVars >>

\* cli.py line 44, openai_client.py lines 19-26
MainCreateClient ==
    /\ fn_pc = "main"
    /\ LET api_key == IF fn_arg.api_key = NULL THEN << >> ELSE Strip(fn_arg.api_key)
       IN  IF api_key = << >>
           THEN Raise("RuntimeError: Missing OPENAI_API_KEY")
           ELSE fn_pc' = "select" /\ fn_res' = fn_res
    /\ UNCHANGED << fn_arg, loopVars, chatVars >>

\* cli.py lines 47-53, chat_picker.py lines 60-86: the picker
MainPick ==
    /\ fn_pc = "select"
    /\ fn_arg.chat_id = None
    /\ IF fn_arg.matching = {}
       THEN Raise("RuntimeError: No recent chats matched")
       ELSE IF fn_arg.choice = 0
            THEN fn_pc' = "exited" /\ fn_res' = << "SystemExit: 0" >>
            ELSE fn_pc' = "name" /\ fn_res' = fn_res
    /\ UNCHANGED << fn_arg, loopVars, chatVars >>

\* cli.py line 55
MainUseChatId ==
    /\ fn_pc = "select"
    /\ fn_arg.chat_id # None
    /\ fn_pc' = "name"
    /\ UNCHANGED << fn_arg, fn_res, loopVars, chatVars >>

\* cli.py line 58, messages.py lines 100-119
MainGetChatName ==
    /\ fn_pc = "name"
    /\ IF chosen_chat_id \notin fn_arg.chats
       THEN Raise("RuntimeError: chat_id not found")
       ELSE fn_pc' = "bot" /\ fn_res' = fn_res
    /\ UNCHANGED << fn_arg, loopVars, chatVars >>

\* cli.py lines 61-62: the bot is built and run() is entered
MainRun ==
    /\ fn_pc = "bot"
    /\ fn_pc' = "run"
    /\ UNCHANGED << fn_arg, fn_res, loopVars, chatVars >>

MainNext ==
    \/ MainCreateClient
    \/ MainPick
    \/ MainUseChatId
    \/ MainGetChatName
    \/ MainRun

SpecMain == MainInit /\ [][MainNext]_vars

MissingCredential ==
    \/ fn_arg.api_key = NULL
    \/ \A i \in 1..Len(fn_arg.api_key) : fn_arg.api_key[i] = " "

NoChatMatches == fn_arg.chat_id = None /\ fn_arg.matching = {}

ChatNotFound == fn_arg.chat_id # None /\ fn_arg.chat_id \notin fn_arg.chats

\* C17: with a missing credential, an unknown chat id, or no chat matching
\* the filter, main() ends by raising and never enters run(): no fetch,
\* completion call or send happens.
C17_SetupErrorsAbort ==
    (MissingCredential \/ NoChatMatches \/ ChatNotFound) =>
        /\ fn_pc \notin {"bot", "run"}
        /\ ~ENABLED MainNext => (fn_pc = "raised" /\ Len(fn_res) = 1)
        /\ evaluated = << >> /\ chat_calls = << >> /\ sends = << >>
        /\ calls = 0

\* C17 witness: the credential is there, the database has chats, none passes
\* the filter, and main() has raised.
C17_Witness ==
    /\ fn_pc = "raised"
    /\ ~MissingCredential
    /\ NoChatMatches
    /\ fn_arg.chats # {}
    /\ fn_res = << "RuntimeError: No recent chats matched" >>

-----------------------------------------------------------------------------
(* PhoneNormalizer.normalize: specification SpecPhone                      *)

\* the quantifier {6,} of E164ISH
MIN_TRAILING == 6

\* longest run of digits on either side of the separator of an input
MaxRun == 6

DigitChars == << "0", "1", "2", "3", "4", "5", "6", "7", "8", "9" >>

IsDigit(c) == \E i \in 1..10 : DigitChars[i] = c

\* [\d\-\(\)\s]
IsPhoneBodyChar(c) == IsDigit(c) \/ c \in {"-", "(", ")"} \/ IsSpace(c)

\* n digits, each the successor of the one before it, after the digit `from`
DigitRun(n, from) == [i \in 1..n |-> DigitChars[((from + i) % 10) + 1]]

PhoneSeparators ==
    { << >>, << "-" >>, << " " >>, << "(" >>, << ")" >>, << "x" >>, << "+" >>,
      << ")", " " >>, << "-", "-", "-", "-", "-", "-" >> }

\* inputs of normalize: optional blank, optional '+', optional first digit, a
\* run of digits, a separator, a second run of digits, optional blank
PhoneInputs ==
    { lead \o plus \o first \o DigitRun(n1, 1) \o sep \o DigitRun(n2, n1 + 1) \o trail :
        lead \in {<< >>, << " " >>}, plus \in {<< >>, << "+" >>},
        first \in {<< >>, << "1" >>, << "5" >>},
        n1 \in 0..MaxRun, sep \in PhoneSeparators, n2 \in 0..MaxRun,
        trail \in {<< >>, << " " >>} }

\* Faulty variant: the pattern written with {7,}
E164ISH_seven(p) ==
    LET i0 == IF p # << >> /\ p[1] = "+" THEN 2 ELSE 1
    IN  /\ Len(p) >= i0
        /\ IsDigit(p[i0])
        /\ Len(p) - i0 >= MIN_TRAILING + 1
        /\ \A j \in (i0 + 1)..Len(p) : IsPhoneBodyChar(p[j])

\* line 8: ^\+?\d[\d\-\(\)\s]{6,}$ matched against the whole of p
E164ISH(p) ==
    LET i0 == IF p # << >> /\ p[1] = "+" THEN 2 ELSE 1
    IN  /\ Len(p) >= i0
        /\ IsDigit(p[i0])
        /\ Len(p) - i0 >= MIN_TRAILING
        /\ \A j \in (i0 + 1)..Len(p) : IsPhoneBodyChar(p[j])

\* Faulty variant: the leading '+' is looked at before the ten-digit rule
normalize_plus_first(phone) ==
    IF phone = << >> THEN NULL
    ELSE LET p == Strip(phone)
         IN  IF ~E164ISH(p) THEN NULL
             ELSE LET digits == SelectSeq(p, IsDigit)
                  IN  IF digits = << >> THEN NULL
                      ELSE IF StartsWith(p, << "+" >>) THEN << "+" >> \o digits
                      ELSE IF Len(digits) = 10 THEN << "+", "1" >> \o digits
                      ELSE << "+" >> \o digits

\* lines 22-43; None is returned as NULL
normalize(phone) ==
    IF phone = << >> THEN NULL
    ELSE LET p == Strip(phone)
         IN  IF ~E164ISH(p) THEN NULL
             ELSE LET digits == SelectSeq(p, IsDigit)
                  IN  IF digits = << >> THEN NULL
                      ELSE IF Len(digits) = 10 THEN << "+", "1" >> \o digits
                      ELSE IF StartsWith(p, << "+" >>) THEN << "+" >> \o digits
                      ELSE IF Len(digits) = 11 /\ digits[1] = "1" THEN << "+" >> \o digits
                      ELSE << "+" >> \o digits

PhoneInit ==
    /\ LoopIdle
    /\ ClientIdle
    /\ fn_pc = "normalize"
    /\ fn_arg \in { << ph >> : ph \in PhoneInputs }
    /\ fn_res = << >>

PhoneCall ==
    /\ fn_pc = "normalize"
    /\ fn_res' = << normalize(fn_arg[1]) >>
    /\ fn_pc' = "returned"
    /\ UNCHANGED << fn_arg, loopVars, chatVars >>

PhoneNext == PhoneCall

SpecPhone == PhoneInit /\ [][PhoneNext]_vars

\* p is an optional '+', one digit, and at least n more characters, each a
\* digit, '-', '(', ')' or blank
HasPhoneShape(p, n) ==
    \E k \in {0, 1} :
        /\ Len(p) >= k + 1 + n
        /\ k = 1 => p[1] = "+"
        /\ IsDigit(p[k + 1])
        /\ \A j \in (k + 2)..Len(p) : IsDigit(p[j]) \/ p[j] \in {"-", "(", ")", " "}

\* C19 as stated: an input is accepted only with at least 7 characters after
\* the first digit; with fewer the result is nothing.
C19_ShapeNeedsSevenMore ==
    fn_pc = "returned" =>
        (fn_res # << NULL >> => HasPhoneShape(Strip(fn_arg[1]), 7))

\* C19, amended: an input is accepted exactly when, trimmed, it is an optional
\* '+', one digit, and at least 6 more characters drawn from digits, '-', '(',
\* ')' and blanks; with fewer than 6 the result is nothing.
C19_ShapeNeedsSixMore ==
    fn_pc = "returned" =>
        (fn_res # << NULL >> <=> HasPhoneShape(Strip(fn_arg[1]), 6))

\* C19 witness: a bare 7-digit number was accepted.
C19_Witness ==
    /\ fn_pc = "returned"
    /\ Len(fn_arg[1]) = 7
    /\ \A i \in 1..7 : IsDigit(fn_arg[1][i])
    /\ fn_res = << << "+" >> \o fn_arg[1] >>

\* C20: the result is nothing, or '+' followed by digits only: the digits of
\* the input in their order, after an added '1' exactly when there are 10.
C20_PlusThenDigits ==
    fn_pc = "returned" =>
        \/ fn_res = << NULL >>
        \/ LET out == fn_res[1]
               digits == SelectSeq(fn_arg[1], IsDigit)
           IN  /\ out[1] = "+"
               /\ \A i \in 2..Len(out) : IsDigit(out[i])
               /\ Tail(out) = (IF Len(digits) = 10 THEN << "1" >> ELSE << >>) \o digits

\* C20 witness: an input with a leading '+', separators and exactly 10 digits
\* got the added '1'.
C20_Witness ==
    /\ fn_pc = "returned"
    /\ StartsWith(Strip(fn_arg[1]), << "+" >>)
    /\ Len(SelectSeq(fn_arg[1], IsDigit)) = 10
    /\ Len(fn_arg[1]) > 12
    /\ fn_res # << NULL >>
    /\ SubSeq(fn_res[1], 1, 2) = << "+", "1" >>
    /\ Len(fn_res[1]) = 12

-----------------------------------------------------------------------------
(* MessageDecoder._scan_printable as a function: specification SpecScan    *)

ScanInit ==
    /\ LoopIdle
    /\ ClientIdle
    /\ fn_pc = "scan_printable"
    /\ fn_arg \in { << b >> : b \in ScanBlobs }
    /\ fn_res = << >>

ScanCall ==
    /\ fn_pc = "scan_printable"
    /\ fn_res' = << scan_printable(fn_arg[1]) >>
    /\ fn_pc' = "returned"
    /\ UNCHANGED << fn_arg, loopVars, chatVars >>

ScanNext == ScanCall

SpecScan == ScanInit /\ [][ScanNext]_vars

IsPrintableByte(b) == b \notin NonPrintableBytes

\* the maximal printable runs of blob, as pairs << first, last >> of positions
MaximalRuns(blob) ==
    { r \in (1..Len(blob)) \X (1..Len(blob)) :
        /\ r[1] <= r[2]
        /\ \A k \in r[1]..r[2] : IsPrintableByte(blob[k])
        /\ r[1] = 1 \/ ~IsPrintableByte(blob[r[1] - 1])
        /\ r[2] = Len(blob) \/ ~IsPrintableByte(blob[r[2] + 1]) }

RunText(blob, r) == SubSeq(blob, r[1], r[2])
RunLen(r) == r[2] - r[1] + 1

-----------------------------------------------------------------------------
(* MessageDecoder.extract_text as a function: specification SpecExtract    *)

\* values of the text column
ExtractTexts == { NULL, << >>, << " ", " " >>, << " ", "h", "i", " " >>, << "h", "i" >> }

\* values of the attributedBody column
ExtractBlobs ==
    { NULL, << >>,
      << "x00", "x1F" >>,
      << "x00", " ", "y", "o", " ", " ", "x00" >>,
      << "N", "S", "O", "b", "j", "e", "c", "t", "x00", " ", "b", "y", "e", " ", "x7F" >> }

\* what string() and str() of the unarchived object give
UnarchivedStrings == { << >>, << " " >>, << " ", "o", "k", " " >>, NULL_DESCRIPTION }

Unarchived ==
    [kind : {"raises"}, has_string : {FALSE}, string : {<< >>}, str : {<< >>}]
    \cup [kind : {"object"}, has_string : BOOLEAN, string : UnarchivedStrings,
          str : UnarchivedStrings]

ExtractRows ==
    [msg_id : {1}, text : ExtractTexts, attributedBody : ExtractBlobs,
     is_from_me : {0}, unarchived : Unarchived]

ExtractInit ==
    /\ LoopIdle
    /\ ClientIdle
    /\ fn_pc = "extract_text"
    /\ fn_arg \in { << row >> : row \in ExtractRows }
    /\ fn_res = << >>

ExtractCall ==
    /\ fn_pc = "extract_text"
    /\ fn_res' = << extract_text(fn_arg[1]) >>
    /\ fn_pc' = "returned"
    /\ UNCHANGED << fn_arg, loopVars, chatVars >>

ExtractNext == ExtractCall

SpecExtract == ExtractInit /\ [][ExtractNext]_vars

\* t without its leading and trailing blanks, computed from both ends
RECURSIVE Trimmed(_)
Trimmed(t) ==
    IF t = << >> THEN << >>
    ELSE IF Head(t) = " " THEN Trimmed(Tail(t))
    ELSE IF t[Len(t)] = " " THEN Trimmed(SubSeq(t, 1, Len(t) - 1))
    ELSE t

\* C22: a text column that is non-empty after trimming is returned trimmed
\* whatever the blob; with an empty or null text and an empty or null blob the
\* result is empty; the result never begins or ends with a blank.
C22_ExtractText ==
    fn_pc = "returned" =>
        LET row == fn_arg[1]
            txt == IF row.text = NULL THEN << >> ELSE Trimmed(row.text)
            out == fn_res[1]
        IN  /\ txt # << >> => out = txt
            /\ (txt = << >> /\ row.attributedBody \in {NULL, << >>}) => out = << >>
            /\ out # << >> => (out[1] # " " /\ out[Len(out)] # " ")

\* C22 witness: a padded text column won over a blob that the unarchiver
\* decodes to another text.
C22_Witness ==
    /\ fn_pc = "returned"
    /\ fn_arg[1].text = << " ", "h", "i", " " >>
    /\ fn_arg[1].attributedBody \notin {NULL, << >>}
    /\ fn_arg[1].unarchived.kind = "object"
    /\ fn_arg[1].unarchived.has_string
    /\ fn_arg[1].unarchived.string = << " ", "o", "k", " " >>
    /\ fn_res = << << "h", "i" >> >>

-----------------------------------------------------------------------------
(* Further properties of the poll loop (Spec)                               *)

\* identifiers the cursor has jumped over: above the start-up cursor, below
\* the cursor, and never passed to should_respond
Skipped ==
    { id \in Ids : /\ last_seen_id # None
                   /\ id < last_seen_id
                   /\ start_id # None => id > start_id
                   /\ id \notin Range(evaluated) }

\* C23: a cycle passes at most one message to should_respond, the newest row
\* of its fetch; the cursor becomes its identifier, and a message the cursor
\* jumped over is never evaluated, answered or sent for afterwards.
C23_OnlyNewestEvaluated ==
    [][ /\ Len(evaluated') <= Len(evaluated) + 1
        /\ evaluated' # evaluated =>
               /\ evaluated' = Append(evaluated, last_debug_id')
               /\ last_seen_id' = last_debug_id'
        /\ \A id \in Skipped :
               /\ id \in Skipped'
               /\ id \notin Range(chat_calls')
               /\ id \notin { sends'[i].id : i \in 1..Len(sends') }
      ]_vars

\* C23 witness: message 2 was jumped over when message 3 was evaluated and
\* answered, and a later cycle found nothing new.
C23_Witness ==
    /\ 2 \in Skipped
    /\ 3 \in Range(chat_calls)
    /\ last_cycle = "seen"
    /\ pc = "fetch"

\* C24: in an accepting cycle the cursor is advanced first, then the
\* completion call is made and returns, then the timer is set to the current
\* time, then the send is attempted; the timer is written neither before the
\* completion call returns nor after the send attempt.
C24_OrderOfAcceptedCycle ==
    [][ /\ (pc = "fetch" /\ pc' = "chat") =>
               /\ last_seen_id' = Last(evaluated')
               /\ evaluated' # evaluated
               /\ chat_calls' = chat_calls
               /\ last_reply_time' = last_reply_time
               /\ sends' = sends
        /\ (pc = "chat" /\ pc' # "chat" /\ exit_cause' # "stop") =>
               /\ chat_calls' = Append(chat_calls, last_seen_id)
               /\ pc' \in {"stamp", "sleep"}
               /\ last_seen_id' = last_seen_id
               /\ last_reply_time' = last_reply_time
               /\ sends' = sends
        /\ (pc = "stamp" /\ pc' # "stamp" /\ exit_cause' # "stop") =>
               /\ pc' = "send"
               /\ last_reply_time' = now
               /\ now' = now
               /\ chat_calls' = chat_calls
               /\ sends' = sends
        /\ (pc = "send" /\ pc' # "send" /\ exit_cause' # "stop") =>
               /\ pc' = "sleep"
               /\ Len(sends') = Len(sends) + 1
               /\ Last(sends').id = Last(chat_calls)
               /\ Last(sends').stamp = last_reply_time
               /\ last_reply_time' = last_reply_time
        /\ pc' = "stamp" => pc \in {"chat", "stamp"}
        /\ pc' = "send" => pc \in {"stamp", "send"}
        /\ sends' # sends => pc = "send"
      ]_vars

\* C24 witness: the completion call and the send both took time; the stamp of
\* the send lies between the poll and the end of the send.
C24_Witness ==
    /\ pc = "sleep"
    /\ Len(sends) = 1
    /\ sends[1].id = last_seen_id
    /\ sends[1].stamp = last_reply_time
    /\ sends[1].stamp > StartTime
    /\ sends[1].stamp < now

\* C25: started on an empty chat the cursor stays unset; the first row
\* fetched afterwards is evaluated whatever its identifier and the cursor
\* becomes that identifier; if it is a trigger it is accepted; a cycle that
\* fetches the row of the cursor again changes nothing.
C25_EmptyChatAtStart ==
    [][ /\ (pc = "init" /\ pc' = "fetch" /\ start_id' = None) => last_seen_id' = None
        /\ (pc = "fetch" /\ last_seen_id = None /\ last_debug_id' # last_debug_id) =>
               /\ evaluated' = << last_debug_id' >>
               /\ last_seen_id' = last_debug_id'
               /\ (TextIsTrigger(text') /\ last_cycle' # "error") =>
                      (pc' = "chat" /\ last_cycle' = "accepted")
        /\ (pc = "fetch" /\ last_seen_id # None /\ last_debug_id' = last_seen_id) =>
               /\ last_seen_id' = last_seen_id
               /\ evaluated' = evaluated
               /\ chat_calls' = chat_calls
               /\ sends' = sends
               /\ pc' \in {"sleep", "done"}
      ]_vars

\* C25 witness: the chat was empty at start-up, the first message had the
\* highest identifier and was a trigger, a send was attempted for it, and a
\* later cycle fetched it again and did nothing.
C25_Witness ==
    /\ start_id = None
    /\ evaluated = << MaxId >>
    /\ last_seen_id = MaxId
    /\ Len(sends) = 1
    /\ sends[1].id = MaxId
    /\ last_cycle = "seen"

-----------------------------------------------------------------------------
(* OpenAIClient.trim_history as a function: specification SpecTrim         *)

\* non-system entries of a history of SpecTrim
MaxTurns == 6

\* values of max_messages in SpecTrim: 0..MaxKeep
MaxKeep == 4

\* n turns, user and assistant in alternation, each with a content of its own
Turns(n) ==
    [i \in 1..n |-> Entry(IF i % 2 = 1 THEN "user" ELSE "assistant", << "m", Letters[i] >>)]

\* histories: with or without a leading system entry, and with a system entry
\* in second place
TrimHistories ==
    UNION { { Turns(n),
              << Entry("system", << "s", "1" >>) >> \o Turns(n),
              SubSeq(Turns(n), 1, 1) \o << Entry("system", << "s", "1" >>) >> \o Tail(Turns(n)) }
            : n \in 1..MaxTurns }
    \cup { << >>, << Entry("system", << "s", "1" >>) >> }

TrimInit ==
    /\ LoopIdle
    /\ ClientIdle
    /\ fn_pc = "trim_history"
    /\ fn_arg \in [history : TrimHistories, max_messages : 0..MaxKeep]
    /\ fn_res = << >>

TrimCall ==
    /\ fn_pc = "trim_history"
    /\ fn_res' = << trim_history(fn_arg.history, fn_arg.max_messages) >>
    /\ fn_pc' = "returned"
    /\ UNCHANGED << fn_arg, loopVars, chatVars >>

TrimNext == TrimCall

SpecTrim == TrimInit /\ [][TrimNext]_vars

\* C26 as stated: for every history and every max_messages >= 0, after
\* trim_history the history holds at most max_messages non-system entries, a
\* leading system entry is kept, and the kept non-system entries are the most
\* recent ones in their order.
C26_TrimKeepsAtMostMax ==
    fn_pc = "returned" =>
        LET h   == fn_arg.history
            out == fn_res[1]
        IN  /\ Len(NonSystem(out)) <= fn_arg.max_messages
            /\ (h # << >> /\ IsSystem(h[1])) => (out # << >> /\ out[1] = h[1])
            /\ NonSystem(out) = LastN(NonSystem(h), Len(NonSystem(out)))

\* C27: every path of a cycle (empty fetch, identifier already seen, decline,
\* reply sent, send failed, exception caught) ends in one sleep of at least
\* POLL_SECONDS, which leads to the next fetch; no path reaches the next fetch
\* without it, and the clock does not move in the steps of the fetch.
C27_OneSleepPerCycle ==
    [][ /\ pc = "fetch" =>
               /\ pc' \in {"sleep", "chat", "done"}
               /\ now' = now
               /\ pc' = "sleep" => last_cycle' \in {"empty", "seen", "declined", "error"}
        /\ pc = "chat" =>
               /\ pc' \in {"stamp", "sleep", "done"}
               /\ pc' = "sleep" => last_cycle' = "error"
        /\ pc = "stamp" => pc' \in {"send", "done"}
        /\ pc = "send" =>
               /\ pc' \in {"sleep", "done"}
               /\ pc' = "sleep" => last_cycle' \in {"sent", "send_failed"}
        /\ pc = "sleep" =>
               /\ pc' \in {"fetch", "done"}
               /\ pc' = "fetch" =>
                      /\ now' >= now + POLL_SECONDS
                      /\ last_cycle' = last_cycle
                      /\ evaluated' = evaluated
                      /\ chat_calls' = chat_calls
                      /\ sends' = sends
        /\ pc' = "fetch" => pc \in {"init", "sleep"}
      ]_vars

\* C27 witness: a cycle whose send failed, then a cycle that declined, each
\* followed by its sleep; the loop is at its third fetch or later.
C27_Witness ==
    /\ pc = "fetch"
    /\ last_cycle = "declined"
    /\ \E i \in 1..Len(sends) : ~sends[i].ok
    /\ now >= StartTime + 2 * POLL_SECONDS

------------------------------------------------------------------------------
(* The poll loop under fair scheduling                                     *)

\* run() is sequential code: a statement that can be executed is executed.
\* The completion call, the assignment of line 162 and the send each go on
\* unless an interrupt or an exception takes their place.
SpecLive ==
    /\ Spec
    /\ WF_vars(Chat /\ UNCHANGED << callVars, chatVars >>)
    /\ WF_vars(Stamp /\ UNCHANGED << callVars, chatVars >>)
    /\ WF_vars(Send /\ UNCHANGED << callVars, chatVars >>)

\* the poll has just accepted message k: it was the newest row, above the
\* cursor, its text begins with the trigger and the cooldown had elapsed
Accepted(k) ==
    /\ pc = "chat"
    /\ last_cycle = "accepted"
    /\ last_seen_id = k
    /\ TextIsTrigger(text)
    /\ now - last_reply_time >= COOLDOWN_SECONDS

\* a send attempt for message k closed the cycle
SendAttempted(k) ==
    /\ pc = "sleep"
    /\ last_cycle \in {"sent", "send_failed"}
    /\ sends # << >>
    /\ Last(sends).id = k

\* the completion collaborator raised instead of returning
CompletionRaised(k) ==
    /\ pc = "sleep"
    /\ last_cycle = "error"
    /\ chat_calls # << >>
    /\ Last(chat_calls) = k

\* C28: once a poll has accepted a message (newest row, identifier above the
\* cursor, text beginning with the trigger, cooldown elapsed), a send attempt
\* for that message eventually occurs, unless a stop is requested or the
\* completion collaborator raises; and it occurs in the same cycle: the loop
\* does not fetch again or sleep before the attempt.
C28_AcceptedLeadsToSend ==
    /\ \A k \in 1..MaxId :
         Accepted(k) ~> (SendAttempted(k) \/ CompletionRaised(k) \/ exit_cause = "stop")
    /\ [][ /\ pc = "chat" /\ pc' \notin {"chat", "done"} /\ last_cycle' # "error"
              => pc' = "stamp" /\ last_seen_id' = last_seen_id
           /\ pc = "stamp" /\ pc' \notin {"stamp", "done"}
              => pc' = "send" /\ last_seen_id' = last_seen_id
           /\ pc = "send" /\ pc' \notin {"send", "done"}
              => /\ pc' = "sleep"
                 /\ Len(sends') = Len(sends) + 1
                 /\ Last(sends').id = last_seen_id
        ]_vars

\* C28 witness: the accepted message was sent although the completion call and
\* the send each took time, and nobody stopped the loop
C28_Witness ==
    /\ \E k \in 1..MaxId : SendAttempted(k) /\ Last(chat_calls) = k
    /\ exit_cause = "none"
    /\ now - last_reply_time > 0

------------------------------------------------------------------------------
(* Further properties of OpenAIClient.chat (SpecChat)                      *)

\* the user entry chat() appended at line 59 of the call in progress
UserEntry == Entry("user", fn_arg[1])

\* C29: while a call is retrying, and when it has ended with a fallback, the
\* history ends with the user entry of the call and is the one the call began
\* with (no assistant entry added, nothing removed); when the call succeeded
\* the history ends with that user entry followed by the assistant entry
\* holding the returned reply.
C29_HistoryAfterChat ==
    /\ [](fn_pc = "create" => history # << >> /\ Last(history) = UserEntry)
    /\ [](fn_pc = "returned" /\ last_outcome # "ok" =>
              /\ fn_res[1] = FallbackOf(last_outcome)
              /\ history # << >>
              /\ Last(history) = UserEntry)
    /\ [](fn_pc = "returned" /\ last_outcome = "ok" =>
              /\ Len(history) >= 2
              /\ history[Len(history) - 1] = UserEntry
              /\ Last(history) = Entry("assistant", fn_res[1]))
    /\ [][fn_pc = "create" /\ last_outcome' # "ok" => history' = history]_vars

\* C29 witness: a call that followed a successful one gave up on its eighth
\* rate-limited attempt
C29_Witness ==
    /\ fn_pc = "returned"
    /\ last_outcome = "rate_limit"
    /\ attempt = MAX_ATTEMPTS
    /\ Len(history) >= 3
    /\ history[Len(history) - 1].role = "assistant"

\* the completion content is None, empty or made of whitespace only
IsBlankContent(content) ==
    \/ content = NULL
    \/ \A i \in 1..Len(content) : IsSpace(content[i])

PLACEHOLDER == << "ELLIPSIS" >>

\* C30: what chat() returns is never empty: the placeholder when the
\* completion's content is None, empty or blank, the content without its
\* outer whitespace otherwise, and a non-empty fallback string in every failure
\* case; so BOT_OUT_PREFIX + reply, which send_reply hands to the sender, is the
\* marker followed by at least one character.
C30_ReplyNeverEmpty ==
    /\ \A kind \in {"quota", "auth", "other", "rate_limit"} :
         FallbackOf(kind) # << >> /\ FallbackOf(kind)[1] # ""
    /\ fn_pc = "returned" =>
         LET r == fn_res[1]
             content == CompletionContent(calls)
         IN  /\ Len(r) >= 1
             /\ last_outcome = "ok" /\ IsBlankContent(content) => r = PLACEHOLDER
             /\ last_outcome = "ok" /\ ~IsBlankContent(content) =>
                    /\ ~IsSpace(r[1]) /\ ~IsSpace(r[Len(r)])
                    /\ \E i, j \in 1..Len(content) : r = SubSeq(content, i, j)
             /\ last_outcome # "ok" => r = FallbackOf(last_outcome)
             /\ StartsWith(Outgoing(r), BOT_OUT_PREFIX)
             /\ Len(Outgoing(r)) >= Len(BOT_OUT_PREFIX) + 1

\* C30 witness: a completion with empty content came back as the placeholder
C30_Witness ==
    /\ fn_pc = "returned"
    /\ last_outcome = "ok"
    /\ CompletionContent(calls) = << >>
    /\ fn_res = << PLACEHOLDER >>

====
